---- MODULE Spec2Model ----
(***************************************************************************)
(* Model of providers/bind/prettyzone.go: the record comparator            *)
(* (zoneGenData.Less, zoneLabelLess, zoneRrtypeLess) and the zone renderer *)
(* (WriteZoneFile, generateZoneFileHelper, formatLine).                    *)
(*                                                                         *)
(* Go strings are modelled as sequences of one-character strings; Ord      *)
(* gives each character its byte value, so that Go's string comparison     *)
(* (bytewise lexicographic) is StrLess.                                    *)
(***************************************************************************)
EXTENDS Integers, Sequences, FiniteSets, TLC

\* Largest number of records in one zone handed to WriteZoneFile.
MaxRecords == 3

(***************************************************************************)
(* Strings                                                                 *)
(***************************************************************************)

\* Byte value of every character that occurs in the modelled strings.
Ord ==
  ("\t" :> 9) @@ (" " :> 32) @@ ("!" :> 33) @@ ("$" :> 36) @@ ("*" :> 42) @@
  ("." :> 46) @@
  ("0" :> 48) @@ ("1" :> 49) @@ ("2" :> 50) @@ ("3" :> 51) @@ ("4" :> 52) @@
  ("5" :> 53) @@ ("6" :> 54) @@ ("7" :> 55) @@ ("8" :> 56) @@ ("9" :> 57) @@
  (";" :> 59) @@ ("@" :> 64) @@
  ("A" :> 65) @@ ("C" :> 67) @@ ("H" :> 72) @@ ("I" :> 73) @@ ("L" :> 76) @@
  ("M" :> 77) @@ ("N" :> 78) @@ ("O" :> 79) @@ ("S" :> 83) @@ ("T" :> 84) @@
  ("X" :> 88) @@
  ("a" :> 97) @@ ("c" :> 99) @@ ("e" :> 101) @@ ("m" :> 109) @@ ("n" :> 110) @@
  ("o" :> 111) @@ ("s" :> 115) @@ ("v" :> 118) @@ ("w" :> 119) @@ ("x" :> 120)

\* Go's s < t on strings: bytewise lexicographic, a proper prefix is less.
RECURSIVE StrLess(_, _)
StrLess(s, t) ==
  IF t = <<>> THEN FALSE
  ELSE IF s = <<>> THEN TRUE
  ELSE IF s[1] = t[1] THEN StrLess(Tail(s), Tail(t))
  ELSE Ord[s[1]] < Ord[t[1]]

\* bytes.Compare on byte slices: -1, 0 or 1.
RECURSIVE BytesCompare(_, _)
BytesCompare(a, b) ==
  IF a = <<>> /\ b = <<>> THEN 0
  ELSE IF a = <<>> THEN -1
  ELSE IF b = <<>> THEN 1
  ELSE IF a[1] = b[1] THEN BytesCompare(Tail(a), Tail(b))
  ELSE IF a[1] < b[1] THEN -1 ELSE 1

DigitChar == <<"0", "1", "2", "3", "4", "5", "6", "7", "8", "9">>

\* Decimal text of an unsigned number (strconv / fmt's %v of a uint).
RECURSIVE Itoa(_)
Itoa(n) ==
  IF n < 10 THEN <<DigitChar[n + 1]>>
  ELSE Itoa(n \div 10) \o <<DigitChar[(n % 10) + 1]>>

\* strings.Split(s, sep) for a one-character separator: every field, empty
\* ones included.
RECURSIVE SplitFrom(_, _, _)
SplitFrom(s, sep, cur) ==
  IF s = <<>> THEN <<cur>>
  ELSE IF s[1] = sep THEN <<cur>> \o SplitFrom(Tail(s), sep, <<>>)
  ELSE SplitFrom(Tail(s), sep, Append(cur, s[1]))

Split(s, sep) == SplitFrom(s, sep, <<>>)

\* strings.SplitN(s, sep, n), n > 0: at most n fields, the last one the
\* unsplit remainder.
RECURSIVE SplitNFrom(_, _, _, _)
SplitNFrom(s, sep, n, cur) ==
  IF n = 1 THEN <<cur \o s>>
  ELSE IF s = <<>> THEN <<cur>>
  ELSE IF s[1] = sep THEN <<cur>> \o SplitNFrom(Tail(s), sep, n - 1, <<>>)
  ELSE SplitNFrom(Tail(s), sep, n, Append(cur, s[1]))

SplitN(s, sep, n) == SplitNFrom(s, sep, n, <<>>)

HasSuffix(s, suf) ==
  /\ Len(suf) <= Len(s)
  /\ SubSeq(s, Len(s) - Len(suf) + 1, Len(s)) = suf

\* strings.TrimRight(s, " ")
RECURSIVE TrimRight(_)
TrimRight(s) ==
  IF s # <<>> /\ s[Len(s)] = " " THEN TrimRight(SubSeq(s, 1, Len(s) - 1))
  ELSE s

(***************************************************************************)
(* github.com/miekg/dns: the parts of the record model the renderer reads  *)
(***************************************************************************)

TypeA == 1
TypeNS == 2
TypeSOA == 6
TypeMX == 15
TypeTXT == 16
ClassINET == 1
ClassCHAOS == 3

\* dns.TypeToString
TypeToString(t) ==
  CASE t = TypeA -> <<"A">>
    [] t = TypeNS -> <<"N", "S">>
    [] t = TypeSOA -> <<"S", "O", "A">>
    [] t = TypeMX -> <<"M", "X">>
    [] t = TypeTXT -> <<"T", "X", "T">>

\* dns.Class.String
ClassToString(c) ==
  CASE c = ClassINET -> <<"I", "N">>
    [] c = ClassCHAOS -> <<"C", "H">>

\* dns.IsFqdn
IsFqdn(s) == s # <<>> /\ s[Len(s)] = "."

\* dns.Fqdn
Fqdn(s) == IF IsFqdn(s) THEN s ELSE s \o <<".">>

\* dnsutil.AddOrigin(s, origin): s made absolute under origin.
AddOrigin(s, origin) ==
  IF IsFqdn(s) THEN s
  ELSE IF origin = <<>> THEN s
  ELSE IF s = <<"@">> \/ s = <<>> THEN origin
  ELSE IF origin = <<".">> THEN Fqdn(s)
  ELSE s \o <<".">> \o origin

\* dnsutil.TrimDomainName(s, origin): s relative to origin, "@" for the apex,
\* s itself when it does not lie under origin.
TrimDomainName(s, origin) ==
  LET fs == Fqdn(s)
      fo == Fqdn(origin)
  IN  IF s = <<>> THEN <<"@">>
      ELSE IF fs = fo THEN <<"@">>
      ELSE IF HasSuffix(fs, <<".">> \o fo)
        THEN SubSeq(fs, 1, Len(fs) - Len(fo) - 1)
      ELSE s

\* net.IP.To4: the 4-byte form of an IPv4 address held in 4 or in 16 bytes
\* (the IPv4-in-IPv6 form net.ParseIP returns), <<>> (nil) otherwise.
V4InV6Prefix == <<0, 0, 0, 0, 0, 0, 0, 0, 0, 0, 255, 255>>

To4(ip) ==
  IF Len(ip) = 4 THEN ip
  ELSE IF Len(ip) = 16 /\ SubSeq(ip, 1, 12) = V4InV6Prefix THEN SubSeq(ip, 13, 16)
  ELSE <<>>

\* net.IP.String of an IPv4 address: dotted decimal.
IpText(ip) ==
  LET b == To4(ip)
  IN  Itoa(b[1]) \o <<".">> \o Itoa(b[2]) \o <<".">> \o Itoa(b[3]) \o <<".">> \o Itoa(b[4])

\* The type-specific data of a record as its canonical line shows it.
Rdata(rr) ==
  IF rr.rrtype = TypeA THEN IpText(rr.ip)
  ELSE IF rr.rrtype = TypeMX THEN Itoa(rr.pref) \o <<" ">> \o rr.rdata
  ELSE rr.rdata

\* dns.RR.String: the canonical one-line rendering of a record,
\*   name \t ttl \t class \t type \t rdata
\* for a record of form "std"; the same line behind the comment marker for
\* form "comment"; a line cut after its second field for form "short".
String(rr) ==
  LET head == rr.name \o <<"\t">> \o Itoa(rr.ttl)
      full == head \o <<"\t">> \o ClassToString(rr.class) \o <<"\t">>
                   \o TypeToString(rr.rrtype) \o <<"\t">> \o Rdata(rr)
  IN  CASE rr.form = "std" -> full
        [] rr.form = "comment" -> <<";">> \o full
        [] rr.form = "short" -> head

(***************************************************************************)
(* The record comparator                                                   *)
(***************************************************************************)

\* zoneLabelLess: "@" first, then "*", then by components compared from the
\* last one to the first; when the shorter name is a suffix of the longer,
\* the one with fewer components is less.
zoneLabelLess(a, b) ==
  IF a = b THEN FALSE
  ELSE IF a = <<"@">> THEN TRUE
  ELSE IF b = <<"@">> THEN FALSE
  ELSE IF a = <<"*">> THEN TRUE
  ELSE IF b = <<"*">> THEN FALSE
  ELSE
    LET as == Split(a, ".")
        bs == Split(b, ".")
        ia == Len(as) - 1
        ib == Len(bs) - 1
        min == IF ia < ib THEN Len(as) - 1 ELSE Len(bs) - 1
        \* the loop's steps 0..min at which the two components differ
        diff == {k \in 0..min : as[Len(as) - k] # bs[Len(bs) - k]}
    IN  IF diff # {}
          THEN LET k == CHOOSE d \in diff : \A e \in diff : d <= e
               IN  StrLess(as[Len(as) - k], bs[Len(bs) - k])
          ELSE ia < ib

\* zoneRrtypeLess without its "b is NS" test.
zoneRrtypeLessNoNsTest(a, b) ==
  IF a = b THEN FALSE
  ELSE IF a = TypeSOA THEN TRUE
  ELSE IF b = TypeSOA THEN FALSE
  ELSE IF a = TypeNS THEN TRUE
  ELSE a < b

\* zoneRrtypeLess by type code alone.
zoneRrtypeLessByCode(a, b) == a < b

\* zoneRrtypeLess: SOA first, then NS, then by type code.
zoneRrtypeLess(a, b) ==
  IF a = b THEN FALSE
  ELSE IF a = TypeSOA THEN TRUE
  ELSE IF b = TypeSOA THEN FALSE
  ELSE IF a = TypeNS THEN TRUE
  ELSE IF b = TypeNS THEN FALSE
  ELSE a < b

\* Less on A records by the text of the address.
LessAByText(a, b) == StrLess(IpText(a.ip), IpText(b.ip))

\* Less, both records of type A: by the 4-byte address.
LessA(a, b) == BytesCompare(To4(a.ip), To4(b.ip)) = -1

\* Less, both records of type MX: by preference.
LessMX(a, b) == a.pref < b.pref

\* Less, any other type: by the canonical line.
LessString(a, b) == StrLess(String(a), String(b))

\* The name Less compares a record by: its name made absolute under the
\* origin, the origin itself replaced by "@".
CompName(z, rr) == AddOrigin(rr.name, z.Origin \o <<".">>)

\* zoneGenData.Less(i, j)
Less(z, i, j) ==
  LET a == z.Records[i]
      b == z.Records[j]
      compA == CompName(z, a)
      compB == CompName(z, b)
      apex == z.Origin \o <<".">>
  IN  IF compA # compB
        THEN zoneLabelLess(IF compA = apex THEN <<"@">> ELSE compA,
                           IF compB = apex THEN <<"@">> ELSE compB)
      ELSE IF a.rrtype # b.rrtype THEN zoneRrtypeLess(a.rrtype, b.rrtype)
      ELSE IF a.rrtype = TypeA THEN LessA(a, b)
      ELSE IF a.rrtype = TypeMX THEN LessMX(a, b)
      ELSE LessString(a, b)

\* zoneGenData.Swap(i, j)
Swap(z, i, j) ==
  [z EXCEPT !.Records = [z.Records EXCEPT ![i] = z.Records[j], ![j] = z.Records[i]]]

\* sort.Sort(z): for at most six elements every version of package sort runs
\* insertionSort, the element at i sunk while it is Less than the one before.
RECURSIVE InsertionSink(_, _)
InsertionSink(z, j) ==
  IF j > 1 /\ Less(z, j, j - 1) THEN InsertionSink(Swap(z, j, j - 1), j - 1)
  ELSE z

RECURSIVE InsertionSort(_, _)
InsertionSort(z, i) ==
  IF i > Len(z.Records) THEN z
  ELSE InsertionSort(InsertionSink(z, i), i + 1)

Sort(z) == InsertionSort(z, 2)

(***************************************************************************)
(* The renderer                                                            *)
(***************************************************************************)

\* result padded with spaces to c characters
RECURSIVE PadTo(_, _)
PadTo(result, c) ==
  IF Len(result) < c THEN PadTo(result \o <<" ">>, c) ELSE result

RECURSIVE FormatFrom(_, _, _, _, _)
FormatFrom(lengths, fields, i, c, result) ==
  IF i > Len(lengths) THEN result
  ELSE LET padded == PadTo(result, c)
           next == IF fields[i] # <<>> THEN padded \o fields[i] \o <<" ">>
                   ELSE padded
       IN  FormatFrom(lengths, fields, i + 1, c + lengths[i] + 1, next)

\* formatLine(lengths, fields)
formatLine(lengths, fields) ==
  TrimRight(FormatFrom(lengths, fields, 1, 0, <<>>))

ColumnWidths == <<10, 5, 2, 5, 0>>

\* fmt.Fprintln(w, "$TTL", z.DefaultTtl), without the newline
HeaderLine(z) == <<"$", "T", "T", "L", " ">> \o Itoa(z.DefaultTtl)

\* the comment test looking for another marker
IsCommentHash(line) == line[1] = "#"

\* line[0] == ';'
IsComment(line) == line[1] = ";"

\* items := strings.SplitN(line, "\t", 5)
Items(line) == SplitN(line, "\t", 5)

\* name, the label field of a line
NameField(nameShort, i, nameShortPrevious) ==
  IF i > 1 /\ nameShort = nameShortPrevious THEN <<>> ELSE nameShort

\* the TTL field without the test for 0
TtlFieldDefaultOnly(z, rr, items) ==
  IF rr.ttl # z.DefaultTtl THEN items[2] ELSE <<>>

\* ttl, the TTL field of a line
TtlField(z, rr, items) ==
  IF rr.ttl # z.DefaultTtl /\ rr.ttl # 0 THEN items[2] ELSE <<>>

\* the class test left out
ClassNeverUnsupported(rr) == FALSE

\* hdr.Class != dns.ClassINET
ClassUnsupported(rr) == rr.class # ClassINET

\* len(items) < 5
TooFewItems(items) == Len(items) < 5

\* the five fields handed to formatLine for record i of z
Fields(z, i, nameShortPrevious) ==
  LET rr == z.Records[i]
      items == Items(String(rr))
      nameShort == TrimDomainName(rr.name, z.Origin)
  IN  << NameField(nameShort, i, nameShortPrevious),
         TtlField(z, rr, items),
         <<"I", "N">>,
         TypeToString(rr.rrtype),
         items[5] >>

(***************************************************************************)
(* Inputs                                                                  *)
(***************************************************************************)

\* The zone origin as the caller gives it, without the final dot.
Origin == <<"e", "x", ".", "c", "o", "m">>

ApexName == Origin \o <<".">>
Under(label) == label \o <<".">> \o ApexName
WildName == Under(<<"*">>)
BangName == Under(<<"!">>)
WwwName == Under(<<"w", "w", "w">>)
SubName == Under(<<"a", ".", "w", "w", "w">>)
\* a name that is not fully qualified
RelName == <<"w", "w", "w">>

Ip2 == <<10, 0, 0, 2>>
\* 10.0.0.10 in the 16-byte form
Ip10 == V4InV6Prefix \o <<10, 0, 0, 10>>
NoIp == <<>>

Mx1 == <<"m", "1", ".">>
Mx2 == <<"m", "2", ".">>
Txt == <<"v">>
Ns == <<"n", "s", ".">>
Soa == <<"n", "s", ".", " ", "m", ".", " ", "1">>

DefaultTtls == {300, 3600}

Rec(name, ttl, class, rrtype, ip, pref, rdata, form) ==
  [name |-> name, ttl |-> ttl, class |-> class, rrtype |-> rrtype,
   ip |-> ip, pref |-> pref, rdata |-> rdata, form |-> form]

\* The records the comparator is exercised on: every kind of name, every
\* type, equal and different addresses and preferences.
OrderSet ==
  {Rec(n, 300, ClassINET, TypeTXT, NoIp, 0, Txt, "std") :
     n \in {ApexName, WildName, BangName, WwwName, SubName, RelName}}
  \cup {Rec(ApexName, 300, ClassINET, TypeSOA, NoIp, 0, Soa, "std"),
        Rec(ApexName, 300, ClassINET, TypeNS, NoIp, 0, Ns, "std")}
  \cup {Rec(ApexName, 0, ClassINET, TypeA, Ip2, 0, <<>>, "std"),
        Rec(ApexName, 3600, ClassINET, TypeA, Ip2, 0, <<>>, "std"),
        Rec(ApexName, 3600, ClassINET, TypeA, Ip10, 0, <<>>, "std")}
  \cup {Rec(ApexName, 300, ClassINET, TypeMX, NoIp, 10, Mx1, "std"),
        Rec(ApexName, 300, ClassINET, TypeMX, NoIp, 10, Mx2, "std"),
        Rec(ApexName, 300, ClassINET, TypeMX, NoIp, 20, Mx1, "std")}
  \cup {Rec(RelName, 300, ClassINET, TypeA, Ip10, 0, <<>>, "std"),
        Rec(WwwName, 300, ClassINET, TypeNS, NoIp, 0, Ns, "std")}

\* The records the renderer is exercised on: well-formed lines, comment
\* lines, a line with too few fields, a class other than IN.
RenderSet ==
  {Rec(ApexName, 300, ClassINET, TypeMX, NoIp, 10, Mx1, "std"),
   Rec(ApexName, 0, ClassINET, TypeMX, NoIp, 10, Mx2, "std"),
   Rec(RelName, 3600, ClassINET, TypeA, Ip2, 0, <<>>, "std"),
   Rec(WwwName, 300, ClassINET, TypeTXT, NoIp, 0, Txt, "std"),
   Rec(WildName, 3600, ClassINET, TypeTXT, NoIp, 0, Txt, "std"),
   Rec(WwwName, 300, ClassINET, TypeTXT, NoIp, 0, Txt, "comment"),
   Rec(WwwName, 300, ClassINET, TypeTXT, NoIp, 0, Txt, "short"),
   Rec(WwwName, 300, ClassCHAOS, TypeTXT, NoIp, 0, Txt, "std"),
   Rec(WwwName, 300, ClassCHAOS, TypeTXT, NoIp, 0, Txt, "comment")}

SeqsUpTo(S, n) == UNION {[1..k -> S] : k \in 0..n}

(***************************************************************************)
(* State                                                                   *)
(***************************************************************************)

VARIABLES
  records,            \* WriteZoneFile's argument records
  origin,             \* WriteZoneFile's argument origin
  defaultTtl,         \* WriteZoneFile's argument defaultTtl
  z,                  \* the zoneGenData built for the call
  pc,                 \* "call", "helper", "loop", "done", "fatal"
  i,                  \* the render loop's index into z.Records, from 1
  nameShortPrevious,  \* the render loop's remembered label
  w,                  \* the lines written to the sink
  emitted,            \* per record line of w: the record's index and fields
  err                 \* the fatal error, "" when none

vars == <<records, origin, defaultTtl, z, pc, i, nameShortPrevious, w, emitted, err>>

ZeroZone == [Origin |-> <<>>, DefaultTtl |-> 0, Records |-> <<>>]

InitWith(S) ==
  /\ records \in SeqsUpTo(S, MaxRecords)
  /\ origin = Origin
  /\ defaultTtl \in DefaultTtls
  /\ z = ZeroZone
  /\ pc = "call"
  /\ i = 0
  /\ nameShortPrevious = <<>>
  /\ w = <<>>
  /\ emitted = <<>>
  /\ err = ""

Init == InitWith(RenderSet)

InitSort == InitWith(OrderSet)

(***************************************************************************)
(* Operations                                                              *)
(***************************************************************************)

\* WriteZoneFile up to the call of the helper: the zone built from a copy of
\* the records.
WriteZoneFile ==
  /\ pc = "call"
  /\ z' = [Origin |-> origin, DefaultTtl |-> defaultTtl, Records |-> records]
  /\ pc' = "helper"
  /\ UNCHANGED <<records, origin, defaultTtl, i, nameShortPrevious, w, emitted, err>>

\* generateZoneFileHelper up to the loop: the sort, then the $TTL line.
SortAndHeader ==
  /\ pc = "helper"
  /\ nameShortPrevious' = <<>>
  /\ z' = Sort(z)
  /\ w' = Append(w, HeaderLine(z))
  /\ i' = 1
  /\ pc' = "loop"
  /\ UNCHANGED <<records, origin, defaultTtl, emitted, err>>

\* LoopSkip remembering the label of the comment line it passes over.
LoopSkipRemembering ==
  /\ pc = "loop"
  /\ i <= Len(z.Records)
  /\ IsComment(String(z.Records[i]))
  /\ i' = i + 1
  /\ nameShortPrevious' = TrimDomainName(z.Records[i].name, z.Origin)
  /\ UNCHANGED <<records, origin, defaultTtl, z, pc, w, emitted, err>>

\* One iteration: a comment line is passed over.
LoopSkip ==
  /\ pc = "loop"
  /\ i <= Len(z.Records)
  /\ IsComment(String(z.Records[i]))
  /\ i' = i + 1
  /\ UNCHANGED <<records, origin, defaultTtl, z, pc, nameShortPrevious, w, emitted, err>>

\* One iteration: log.Fatalf("Too few items in: %v", line)
LoopTooFew ==
  /\ pc = "loop"
  /\ i <= Len(z.Records)
  /\ ~IsComment(String(z.Records[i]))
  /\ TooFewItems(Items(String(z.Records[i])))
  /\ pc' = "fatal"
  /\ err' = "Too few items"
  /\ UNCHANGED <<records, origin, defaultTtl, z, i, nameShortPrevious, w, emitted>>

\* One iteration: log.Fatalf("Unimplemented class=%v", items[2])
LoopBadClass ==
  /\ pc = "loop"
  /\ i <= Len(z.Records)
  /\ ~IsComment(String(z.Records[i]))
  /\ ~TooFewItems(Items(String(z.Records[i])))
  /\ ClassUnsupported(z.Records[i])
  /\ nameShortPrevious' = TrimDomainName(z.Records[i].name, z.Origin)
  /\ pc' = "fatal"
  /\ err' = "Unimplemented class"
  /\ UNCHANGED <<records, origin, defaultTtl, z, i, w, emitted>>

\* One iteration: the record's line is written.
LoopEmit ==
  /\ pc = "loop"
  /\ i <= Len(z.Records)
  /\ ~IsComment(String(z.Records[i]))
  /\ ~TooFewItems(Items(String(z.Records[i])))
  /\ ~ClassUnsupported(z.Records[i])
  /\ LET fields == Fields(z, i, nameShortPrevious)
     IN  /\ w' = Append(w, formatLine(ColumnWidths, fields))
         /\ emitted' = Append(emitted, [i |-> i, fields |-> fields])
  /\ nameShortPrevious' = TrimDomainName(z.Records[i].name, z.Origin)
  /\ i' = i + 1
  /\ UNCHANGED <<records, origin, defaultTtl, z, pc, err>>

\* return nil
LoopEnd ==
  /\ pc = "loop"
  /\ i > Len(z.Records)
  /\ pc' = "done"
  /\ UNCHANGED <<records, origin, defaultTtl, z, i, nameShortPrevious, w, emitted, err>>

Next ==
  \/ WriteZoneFile
  \/ SortAndHeader
  \/ LoopSkip
  \/ LoopTooFew
  \/ LoopBadClass
  \/ LoopEmit
  \/ LoopEnd

Spec == Init /\ [][Next]_vars

\* The comparator and the sort alone, on the wider record set.
NextSort ==
  \/ WriteZoneFile
  \/ SortAndHeader

SpecSort == InitSort /\ [][NextSort]_vars

(***************************************************************************)
(* The whole call as one function, for statements about two calls          *)
(***************************************************************************)

\* the loop of generateZoneFileHelper from record k on
RECURSIVE RenderLoop(_, _, _, _)
RenderLoop(zz, k, prev, out) ==
  IF k > Len(zz.Records) THEN [w |-> out, err |-> ""]
  ELSE LET rr == zz.Records[k]
           line == String(rr)
       IN  IF IsComment(line) THEN RenderLoop(zz, k + 1, prev, out)
           ELSE IF TooFewItems(Items(line)) THEN [w |-> out, err |-> "Too few items"]
           ELSE IF ClassUnsupported(rr) THEN [w |-> out, err |-> "Unimplemented class"]
           ELSE RenderLoop(zz, k + 1, TrimDomainName(rr.name, zz.Origin),
                           Append(out, formatLine(ColumnWidths, Fields(zz, k, prev))))

\* generateZoneFileHelper: what is written, and the fatal error if any
generateZoneFileHelper(zz) ==
  LET s == Sort(zz)
  IN  RenderLoop(s, 1, <<>>, <<HeaderLine(s)>>)

\* The outcome of WriteZoneFile(w, recs, origin, defaultTtl)
Outcome(recs) ==
  generateZoneFileHelper([Origin |-> origin, DefaultTtl |-> defaultTtl, Records |-> recs])

\* Every reordering of a sequence.
Reorderings(s) ==
  {[k \in 1..Len(s) |-> s[p[k]]] : p \in Permutations(1..Len(s))}

\* The steps of the loop write what the function says.
StepsMatchHelper ==
  pc \in {"done", "fatal"} => Outcome(records) = [w |-> w, err |-> err]

(***************************************************************************)
(* Properties                                                              *)
(***************************************************************************)

\* the sort has run
Sorted == pc \in {"loop", "done", "fatal"}

Positions == 1..Len(z.Records)

\* the label of record k relative to the origin
ShortName(k) == TrimDomainName(z.Records[k].name, origin)

\* the absolute name of record k
FullName(k) == AddOrigin(z.Records[k].name, origin \o <<".">>)

\* C1: for a fixed set of records, origin and default TTL, every ordering of
\* the input gives the same written text and the same outcome.
C1_SameOutputForEveryInputOrder ==
  pc \in {"done", "fatal"} =>
    \A q \in Reorderings(records) : Outcome(q) = [w |-> w, err |-> err]

\* C2: Less is a strict ordering of the records of a zone: never Less(x, x);
\* Less(a, b) excludes Less(b, a); Less(a, b) and Less(b, c) give Less(a, c).
C2_LessIsStrictOrder ==
  pc = "helper" =>
    \A a \in Positions :
      /\ ~Less(z, a, a)
      /\ \A b \in Positions :
           Less(z, a, b) =>
             /\ ~Less(z, b, a)
             /\ \A c \in Positions : Less(z, b, c) => Less(z, a, c)

\* C2 witness: a chain apex < wildcard < multi-component name, about to be
\* sorted.
C2_Witness ==
  /\ pc = "helper"
  /\ \E a, b, c \in Positions :
       /\ FullName(a) = ApexName /\ FullName(b) = WildName /\ FullName(c) = SubName
       /\ z.Records[a].rrtype # z.Records[c].rrtype
       /\ Less(z, a, b) /\ Less(z, b, c) /\ Less(z, a, c)

\* C3 as claimed: the loop never gets past a record whose class is not IN,
\* comment line or not, and when it stops at one the error is the
\* unsupported-class error.
C3_NonInetAlwaysAborts ==
  Sorted =>
    \A k \in Positions :
      z.Records[k].class # ClassINET =>
        /\ i <= k
        /\ (pc = "fatal" /\ i = k) => err = "Unimplemented class"

\* C3 amended: the loop never gets past a record whose class is not IN and
\* whose canonical line does not begin with ';', so the render never
\* completes; when it stops at such a record with a five-field line the
\* error is the unsupported-class error. A record whose line begins with ';'
\* is passed over whatever its class.
C3_NonInetNonCommentAborts ==
  Sorted =>
    \A k \in Positions :
      LET rr == z.Records[k]
      IN  /\ (rr.class # ClassINET /\ rr.form # "comment") =>
               /\ i <= k
               /\ pc # "done"
               /\ (pc = "fatal" /\ i = k /\ rr.form = "std")
                    => err = "Unimplemented class"
          /\ (rr.form = "comment" /\ i > k) =>
               \A n \in 1..Len(emitted) : emitted[n].i # k

\* C3 witness: the render stopped at a record of class CH with the
\* unsupported-class error, after passing over a comment line of class CH.
C3_Witness ==
  /\ pc = "fatal"
  /\ err = "Unimplemented class"
  /\ z.Records[i].class = ClassCHAOS
  /\ \E k \in 1..(i - 1) :
       z.Records[k].class = ClassCHAOS /\ z.Records[k].form = "comment"

\* C4 as claimed: when the render aborts, nothing has been written.
C4_NothingWrittenAtAbort ==
  pc = "fatal" => w = <<>>

\* C4 amended: when the render aborts at record i, the sink holds the $TTL
\* line followed by one line for each record before i that is not a comment
\* line, and nothing for record i or a later one.
C4_PartialOutputAtAbort ==
  pc = "fatal" =>
    /\ Len(w) = 1 + Cardinality({k \in 1..(i - 1) : z.Records[k].form # "comment"})
    /\ w[1] = <<"$", "T", "T", "L", " ">> \o Itoa(defaultTtl)
    /\ Len(emitted) = Len(w) - 1
    /\ \A n \in 1..Len(emitted) :
         /\ emitted[n].i < i
         /\ z.Records[emitted[n].i].form # "comment"

\* C4 witness: an abort at the third record, two record lines written.
C4_Witness ==
  /\ pc = "fatal"
  /\ i = 3
  /\ Len(w) = 3

\* C5: in sorted order every apex record is before every other record, and
\* every record at the wildcard name is before every record at a name other
\* than the apex and the wildcard.
C5_ApexThenWildcardThenRest ==
  Sorted =>
    \A p, q \in Positions :
      /\ (FullName(p) = ApexName /\ FullName(q) # ApexName) => p < q
      /\ (FullName(p) = WildName /\ FullName(q) \notin {ApexName, WildName}) => p < q

\* the order of types: SOA, then NS, then by type code
TypeBefore(s, t) ==
  \/ s = TypeSOA /\ t # TypeSOA
  \/ s = TypeNS /\ t \notin {TypeSOA, TypeNS}
  \/ s \notin {TypeSOA, TypeNS} /\ t \notin {TypeSOA, TypeNS} /\ s < t

\* C6: in sorted order, records of one name are ordered by type, SOA first,
\* then NS, then by type code; and of two different type codes
\* zoneRrtypeLess puts exactly one before the other.
C6_TypesInOrderWithinLabel ==
  /\ Sorted =>
       \A p, q \in Positions :
         (p < q /\ FullName(p) = FullName(q) /\ z.Records[p].rrtype # z.Records[q].rrtype)
           => TypeBefore(z.Records[p].rrtype, z.Records[q].rrtype)
  /\ \A p, q \in Positions :
       LET s == z.Records[p].rrtype
           t == z.Records[q].rrtype
       IN  IF s = t THEN ~zoneRrtypeLess(s, t)
           ELSE zoneRrtypeLess(s, t) # zoneRrtypeLess(t, s)

\* C6 witness: A, NS and SOA at one name, given in that order, sorted.
C6_Witness ==
  /\ Sorted
  /\ Len(records) = 3
  /\ \A k \in 1..3 : records[k].name = ApexName
  /\ <<records[1].rrtype, records[2].rrtype, records[3].rrtype>> = <<TypeA, TypeNS, TypeSOA>>
  /\ <<z.Records[1].rrtype, z.Records[2].rrtype, z.Records[3].rrtype>> = <<TypeSOA, TypeNS, TypeA>>

\* C7: a written line has an empty label field exactly when its record's
\* relative label is that of the record of the line written before it; the
\* first written line carries its label; a comment line is never written
\* and leaves the remembered label alone.
C7_LabelElidedIffSameAsPrevious ==
  /\ \A n \in 1..Len(emitted) :
       LET e == emitted[n]
       IN  /\ z.Records[e.i].form # "comment"
           /\ e.fields[1] = <<>> <=> (n > 1 /\ ShortName(e.i) = ShortName(emitted[n - 1].i))
           /\ e.fields[1] # <<>> => e.fields[1] = ShortName(e.i)
           /\ (w[n + 1][1] = " ") <=> (e.fields[1] = <<>>)
  /\ pc = "loop" =>
       nameShortPrevious = IF emitted = <<>> THEN <<>>
                           ELSE ShortName(emitted[Len(emitted)].i)

\* C7 witness: two written lines of one label with a comment line passed
\* over between them, the second with an empty label field.
C7_Witness ==
  /\ Len(emitted) = 2
  /\ emitted[1].i = 1
  /\ emitted[2].i = 3
  /\ z.Records[2].form = "comment"
  /\ emitted[1].fields[1] = <<"w", "w", "w">>
  /\ emitted[2].fields[1] = <<>>

\* C8: the TTL field of a written line is empty when the record's TTL is the
\* default TTL or 0, and is the record's TTL in decimal otherwise; the first
\* line written is "$TTL" and the caller's default TTL.
C8_TtlElidedIffDefaultOrZero ==
  /\ \A n \in 1..Len(emitted) :
       LET rr == z.Records[emitted[n].i]
       IN  emitted[n].fields[2] =
             IF rr.ttl = defaultTtl \/ rr.ttl = 0 THEN <<>> ELSE Itoa(rr.ttl)
  /\ w # <<>> => w[1] = <<"$", "T", "T", "L", " ">> \o Itoa(defaultTtl)

\* C8 witness: three lines written, of a record with TTL 0, one with the
\* default TTL and one with another TTL.
C8_Witness ==
  /\ pc = "done"
  /\ \E a, b, c \in 1..Len(emitted) :
       /\ z.Records[emitted[a].i].ttl = 0
       /\ z.Records[emitted[b].i].ttl = defaultTtl
       /\ z.Records[emitted[c].i].ttl \notin {0, defaultTtl}
       /\ emitted[c].fields[2] # <<>>

\* the IPv4 address as a number
IpNumber(ip) ==
  LET b == To4(ip)
  IN  ((b[1] * 256 + b[2]) * 256 + b[3]) * 256 + b[4]

\* C9: in sorted order, A records of one name are in ascending order of
\* their address taken as four unsigned bytes.
C9_AddressesAscendingWithinLabel ==
  Sorted =>
    \A p, q \in Positions :
      (p < q /\ FullName(p) = FullName(q)
         /\ z.Records[p].rrtype = TypeA /\ z.Records[q].rrtype = TypeA)
        => IpNumber(z.Records[p].ip) <= IpNumber(z.Records[q].ip)

\* C9 witness: 10.0.0.10 given before 10.0.0.2 at one name, sorted with
\* 10.0.0.2 first.
C9_Witness ==
  /\ Sorted
  /\ Len(records) = 2
  /\ records[1].name = records[2].name
  /\ records[1].ip = Ip10 /\ records[2].ip = Ip2
  /\ z.Records[1].ip = Ip2 /\ z.Records[2].ip = Ip10

\* C10: of two records whose canonical lines differ, Less puts exactly one
\* before the other.
C10_DifferentLinesAreOrdered ==
  pc # "call" =>
    \A a, b \in Positions :
      String(z.Records[a]) # String(z.Records[b])
        => (Less(z, a, b) # Less(z, b, a))

====
